---- MODULE Spec2Model ----
(***************************************************************************)
(* Video-file sharing: the capture-and-publish engine (useVideoFileShare), *)
(* the share coordinator (ShareProvider), its two tabs, and the playback   *)
(* mirror with its remote operations (useVideoControls).                   *)
(*                                                                         *)
(* The program runs on one event loop.  Every action below is one task of  *)
(* that loop: an event handler, or the continuation of an async function   *)
(* after the promise it awaits settles.  React state written by a task is  *)
(* visible to the next task (the render and its effects are part of the    *)
(* task that caused them).                                                 *)
(***************************************************************************)
EXTENDS Integers, Sequences, FiniteSets, TLC

NULL == "null"      \* a null string-valued slot (element, error, type)
None == 0           \* a null object reference (handle, array, stream)

\* Bounds of the model.
MaxAudio == 2       \* audio sub-tracks of a captured stream
MaxVideo == 2       \* video sub-tracks of a captured stream
MaxCount == 2       \* unpublish calls counted per handle (2: more than one)
MaxAppTracks == 1   \* sub-tracks per kind of the files picked in the panel
MaxInFlight == 2    \* engine calls suspended at the same time

Elements == {"el1", "el2", "el3"}

VARIABLES
  engine,     \* useVideoFileShare: its React state and its three refs
  heap,       \* the JS objects the refs point to: audio arrays, streams
  room,       \* the session: publication handles, remote operations
  calls,      \* the invocations of startSharing/stopSharing that have not
              \* returned, and the one that returned last
  elements,   \* the playback elements
  share,      \* ShareProvider: its React state and stopHandlerRef
  controls,   \* useVideoControls: read model, listeners, remote operations
  ui          \* ShareModal: the tab shown, the screen-share toggle, the
              \* message area; VideoFileModal: its file and message

vars == <<engine, heap, room, calls, elements, share, controls, ui>>

World ==
  [engine |-> engine, heap |-> heap, room |-> room, calls |-> calls,
   elements |-> elements, share |-> share, controls |-> controls, ui |-> ui]

SetWorld(w) ==
  /\ engine' = w.engine
  /\ heap' = w.heap
  /\ room' = w.room
  /\ calls' = w.calls
  /\ elements' = w.elements
  /\ share' = w.share
  /\ controls' = w.controls
  /\ ui' = w.ui

(***************************************************************************)
(* Initial values.                                                         *)
(***************************************************************************)
InitEngine ==
  [isSharing |-> FALSE, isLoading |-> FALSE, error |-> NULL,
   videoTrackRef |-> None, audioTracksRef |-> None, streamRef |-> None]

\* Number.NaN, the duration of an element whose metadata is not known yet.
NaN == 0 - 1000
IsNaN(x) == x = NaN

InitElement ==
  [paused |-> TRUE, muted |-> FALSE, volume |-> 1, currentTime |-> 0,
   duration |-> NaN, playbackRate |-> 1]

\* stopHandlerRef.current: which function, the element its closure holds,
\* and whether the hook instance it belongs to has been unmounted.
NoHandler == [fn |-> NULL, videoElement |-> NULL, dead |-> FALSE]

InitShare ==
  [isOpen |-> FALSE, activeType |-> NULL, stopHandlerRef |-> NoHandler,
   selectedFile |-> NULL, videoElement |-> NULL]

\* No file selection was attempted in the task that just ran.
NoAttempt == [entry |-> NULL, file |-> NULL, before |-> NULL]

\* Tabs.tabIndex, the screen-share track being on, VideoShareTab.localError,
\* VideoFileModal's isOpen prop, selectedFile and error; and two logs of
\* the task that
\* just ran: the file selection it attempted, and the coordinator function
\* (stop, handleStart) that returned in it.
InitUi ==
  [tabIndex |-> 0, enabled |-> FALSE, localError |-> NULL,
   modalOpen |-> FALSE, selectedFile |-> NULL, error |-> NULL,
   attempt |-> NoAttempt, returned |-> NULL]

InitControls ==
  [isPlaying |-> FALSE, currentTime |-> 0, duration |-> 0, volume |-> 1,
   playbackRate |-> 1, listeners |-> NULL, mounted |-> TRUE]

PAUSE_STREAM_METHOD == "PausePlayStream"
SEEK_STREAM_METHOD == "SeekStream"
RpcMethods == {PAUSE_STREAM_METHOD, SEEK_STREAM_METHOD}

\* A registry slot: whether a handler is registered, and the values of the
\* render its closure was created in.
NoRpc ==
  [registered |-> FALSE, isPlaying |-> FALSE, currentTime |-> 0, duration |-> 0]

\* No remote call was served in the task that just ran.
NoResponse ==
  [method |-> NULL, payload |-> <<>>, result |-> <<>>, prior |-> <<>>,
   isPlaying |-> FALSE, currentTime |-> 0, duration |-> 0]

\* response: a log of the remote call served in the task that just ran (its
\* payload and result, the result of the same call served in the task
\* before, and the read model as it was when the call arrived).
\* reRegistered: registerRpcMethod was called, in the task that just ran,
\* for a name that had a handler registered.
InitRoom ==
  [publications |-> <<>>, orphaned |-> FALSE,
   rpc |-> [m \in RpcMethods |-> NoRpc],
   response |-> NoResponse, reRegistered |-> FALSE]

\* captureThrows and stopThrows say what the browser does to the
\* captureStream() and MediaStreamTrack.stop() calls of the engine call that
\* is running.
\* urls[p] are the blob URLs of the VideoFilePlayer p: the files of those
\* created and not revoked, whether a cleanup holding the last one is
\* pending, and how many this task created and revoked.
Players == {"provider", "modal"}
NoUrls == [live |-> <<>>, cleanup |-> FALSE, created |-> 0, revoked |-> 0]
InitHeap ==
  [arrays |-> <<>>, streams |-> <<>>, orphaned |-> FALSE,
   captureThrows |-> FALSE, stopThrows |-> FALSE,
   urls |-> [p \in Players |-> NoUrls]]

(***************************************************************************)
(* useVideoControls: the effect with deps [videoElement, videoSharingActive]*)
(***************************************************************************)
VideoSharingActive(w) == w.share.activeType = "video"

\* A cleanup that removes no listener.
ControlsCleanup_KeepsListeners(w) == w

\* Lines 75-81: the cleanup the previous run of the effect returned.
ControlsCleanup(w) == [w EXCEPT !.controls.listeners = NULL]

\* Lines 40-73: the effect body, run in the render that changed a dep.  The
\* two handlers close over isPlaying, currentTime and duration of that
\* render; the initial sync writes the state of a later render.
ControlsEffectBody(w) ==
  LET el == w.share.videoElement
  IN IF el = NULL \/ ~VideoSharingActive(w)
       THEN [w EXCEPT !.room.rpc = [m \in RpcMethods |-> NoRpc]]
       ELSE [w EXCEPT
               !.controls.listeners = el,
               !.room.reRegistered =
                  \E m \in RpcMethods : w.room.rpc[m].registered,
               !.room.rpc = [m \in RpcMethods |->
                               [registered |-> TRUE,
                                isPlaying |-> w.controls.isPlaying,
                                currentTime |-> w.controls.currentTime,
                                duration |-> w.controls.duration]],
               !.controls.currentTime = w.elements[el].currentTime,
               !.controls.duration = w.elements[el].duration,
               !.controls.isPlaying = ~w.elements[el].paused,
               !.controls.volume = w.elements[el].volume,
               !.controls.playbackRate = w.elements[el].playbackRate]

\* The render that ends a task: the useVideoControls effect runs again if
\* one of its deps changed.
CommitControls(old, new) ==
  IF /\ new.controls.mounted
     /\ \/ new.share.videoElement # old.share.videoElement
        \/ VideoSharingActive(new) # VideoSharingActive(old)
    THEN ControlsEffectBody(ControlsCleanup(new))
    ELSE new

(***************************************************************************)
(* VideoFilePlayer (part_002): the effect with deps [file].                *)
(***************************************************************************)
\* The cleanup that only clears the element's source.
LoadCleanup_NoRevoke(w, p) ==
  [w EXCEPT !.heap.urls[p].cleanup = FALSE]

\* Lines 40-43: the cleanup the previous run of the effect returned, if it
\* returned one: it revokes the URL that run created.
LoadCleanup(w, p) ==
  IF w.heap.urls[p].cleanup
    THEN [w EXCEPT !.heap.urls[p].live = SubSeq(@, 1, Len(@) - 1),
                   !.heap.urls[p].revoked = @ + 1,
                   !.heap.urls[p].cleanup = FALSE]
    ELSE w

\* Lines 28-38: the effect body for the file the player is rendered with.
LoadEffect(w, p, file) ==
  IF file = NULL
    THEN w
    ELSE [w EXCEPT !.heap.urls[p].live = Append(@, file),
                   !.heap.urls[p].created = @ + 1,
                   !.heap.urls[p].cleanup = TRUE]

\* The file player p is rendered with, NULL when it is not rendered:
\* part_004:474-479 and VideoFileModal.tsx:116-122.
PlayerFile(w, p) ==
  IF p = "provider" THEN w.share.selectedFile ELSE w.ui.selectedFile

\* The render that ends a task, for player p: a File object that is not the
\* one of the previous render runs the cleanup and then the effect; a
\* player no longer rendered is unmounted, which runs the cleanup.
CommitPlayer(old, new, p) ==
  IF \/ PlayerFile(new, p) # PlayerFile(old, p)
     \/ /\ new.ui.attempt.entry = p
        /\ new.ui.attempt.file = PlayerFile(new, p)
    THEN LoadEffect(LoadCleanup(new, p), p, PlayerFile(new, p))
    ELSE new

Commit(old, new) ==
  CommitPlayer(old, CommitPlayer(old, CommitControls(old, new), "provider"),
               "modal")

(***************************************************************************)
(* ShareProvider and its tabs: the code that runs after an await.          *)
(***************************************************************************)
\* ShareProvider.open, part_004:385-387.
Open(w) == [w EXCEPT !.share.isOpen = TRUE]

\* close() that also declares nothing shared.
Close_ClearsMode(w) ==
  [w EXCEPT !.share.isOpen = FALSE, !.share.activeType = NULL]

\* ShareProvider.close, part_004:388-390.
Close(w) == [w EXCEPT !.share.isOpen = FALSE]

\* ShareProvider.toggle, part_004:391.
Toggle(w) == [w EXCEPT !.share.isOpen = ~@]

\* setSharing that drops the stop handler when the mode is cleared.
SetSharing_DropsHandler(w, type) ==
  IF type = NULL
    THEN [w EXCEPT !.share.activeType = NULL,
                   !.share.stopHandlerRef = NoHandler]
    ELSE [w EXCEPT !.share.activeType = type]

\* ShareProvider.setSharing(type), part_004:397-399.
SetSharing(w, type) == [w EXCEPT !.share.activeType = type]

\* VideoShareTab.handleStart after `await startSharing()`: lines 109-111.
HandleStartResume(w, c) ==
  Close([w EXCEPT !.share.stopHandlerRef =
                     [fn |-> "stopSharing", videoElement |-> w.calls[c].el,
                      dead |-> FALSE]])

\* StopResume that leaves the bound element in place.
StopResume_KeepElement(w, activeType) ==
  LET w1 == IF activeType = "video"
              THEN [w EXCEPT !.share.selectedFile = NULL]
              ELSE w
  IN [w1 EXCEPT !.share.activeType = NULL]

\* StopResume that clears the file and the element whatever the mode.
StopResume_AlwaysClears(w, activeType) ==
  [w EXCEPT !.share.selectedFile = NULL,
            !.share.videoElement = NULL,
            !.share.activeType = NULL]

\* ShareProvider.stop after the handler settled: lines 409-415.  activeType
\* is the value of the render the stop callback was created in.
StopResume(w, activeType) ==
  LET w1 == IF activeType = "video"
              THEN [w EXCEPT !.share.selectedFile = NULL,
                             !.share.videoElement = NULL]
              ELSE w
  IN [w1 EXCEPT !.share.activeType = NULL]

(***************************************************************************)
(* Invocations.  A call record is the activation of one async function:    *)
(* where it is suspended (pc), what its closure captured (el), its locals  *)
(* (stream, idx, arr, h), and a log of what it has done so far.            *)
(*   pc: "play" | "pubV" | "pubA" | "unpubV" | "unpubA" | "toggle", then   *)
(*       "done" in the task it returns in, and "past" after that           *)
(*   comp: the stopSharing() a failed startSharing() awaits is running     *)
(***************************************************************************)
NewCall(op, caller, el, ctx, pre) ==
  [op |-> op, caller |-> caller, ctx |-> ctx, pc |-> "new", el |-> el,
   pre |-> pre, nV |-> 0, nA |-> 0, stream |-> None, idx |-> 0, arr |-> None, h |-> None,
   comp |-> FALSE, result |-> NULL,
   onError |-> 0, onTrackPublished |-> 0, onTrackUnpublished |-> 0,
   publishCalls |-> <<>>, handles |-> <<>>, unpublishCalls |-> <<>>,
   rejected |-> <<>>]

\* The caller's code after `await startSharing()` / `await handler()`.
Return(w, c) ==
  CASE w.calls[c].caller = "handleStart" ->
         [HandleStartResume(w, c) EXCEPT !.ui.returned = "handleStart"]
    [] w.calls[c].caller = "stop" ->
         [StopResume(w, w.calls[c].ctx) EXCEPT !.ui.returned = "stop"]
    [] OTHER -> w

\* options.onError(err): VideoShareTab passes (err) => setLocalError(err.message).
OnError(w, c, msg) ==
  LET w1 == [w EXCEPT !.calls[c].onError = @ + 1]
  IN IF w.calls[c].caller = "user" THEN w1
     ELSE [w1 EXCEPT !.ui.localError = msg]

\* options.onTrackPublished(): VideoShareTab passes () => setLocalError(null).
OnTrackPublished(w, c) ==
  LET w1 == [w EXCEPT !.calls[c].onTrackPublished = @ + 1]
  IN IF w.calls[c].caller = "user" THEN w1
     ELSE [w1 EXCEPT !.ui.localError = NULL]

\* StopFinally whose finally block leaves isLoading as it is.
StopFinally_StaysLoading(w, c, res) ==
  LET w1 == [w EXCEPT !.calls[c].pc = "done",
                      !.calls[c].result =
                         IF w.calls[c].op = "start" THEN "failed" ELSE res]
  IN Return(w1, c)

\* `finally { setIsLoading(false) }` of stopSharing, then, when this
\* stopSharing is the compensation of a failed start, the start's own finally.
StopFinally(w, c, res) ==
  LET w1 == [w EXCEPT !.engine.isLoading = FALSE,
                      !.calls[c].pc = "done",
                      !.calls[c].result =
                         IF w.calls[c].op = "start" THEN "failed" ELSE res]
  IN Return(w1, c)

\* stopSharing without its catch block: the failure leaves through finally.
StopCatch_Uncaught(w, c, what) ==
  StopFinally([w EXCEPT !.calls[c].rejected = Append(@, what)], c, "threw")

\* Lines 71-74: an unpublish rejected or a track's stop() threw.
StopCatch(w, c, what) ==
  StopFinally(OnError([w EXCEPT !.engine.error = what,
                                !.calls[c].rejected = Append(@, what)],
                      c, what),
              c, "failed")

\* StopTail with the notification made only when a stream was stopped.
StopTail_NotifyIfStream(w, c) ==
  LET s  == w.engine.streamRef
      el == w.calls[c].el
      w1 == IF s # None
              THEN [w EXCEPT !.heap.streams[s].stopped = TRUE,
                             !.engine.streamRef = None,
                             !.calls[c].onTrackUnpublished = @ + 1]
              ELSE w
      w2 == [w1 EXCEPT !.engine.isSharing = FALSE]
      w3 == IF el # NULL THEN [w2 EXCEPT !.elements[el].paused = TRUE] ELSE w2
  IN StopFinally(w3, c, "ok")

\* Lines 57-70: stop the stream's tracks, clear the stream, leave Sharing,
\* notify, pause the element the closure captured.  A stop() that throws
\* does so at the stream's first track and ends the try block there.
StopTail(w, c) ==
  LET s  == w.engine.streamRef
      el == w.calls[c].el
      w1 == IF s # None
              THEN [w EXCEPT !.heap.streams[s].stopped = TRUE,
                             !.engine.streamRef = None]
              ELSE w
      w2 == [w1 EXCEPT !.engine.isSharing = FALSE,
                       !.calls[c].onTrackUnpublished = @ + 1]
      w3 == IF el # NULL THEN [w2 EXCEPT !.elements[el].paused = TRUE] ELSE w2
  IN IF /\ s # None
        /\ w.heap.stopThrows
        /\ w.heap.streams[s].nV + w.heap.streams[s].nA > 0
       THEN StopCatch(w, c, "track stop failed")
       ELSE StopFinally(w3, c, "ok")

\* room.localParticipant.unpublishTrack(handle.track) is issued.
IssueUnpublish(w, c, h, pc) ==
  [w EXCEPT !.room.publications[h].unpublishCalls =
               IF @ < MaxCount THEN @ + 1 ELSE @,
            !.calls[c].unpublishCalls = Append(@, h),
            !.calls[c].h = h,
            !.calls[c].pc = pc]

\* Lines 49-54: the for-of loop over the array object, at index idx.
RECURSIVE StopAudioLoop(_, _)
StopAudioLoop(w, c) ==
  LET a == w.calls[c].arr
      i == w.calls[c].idx
  IN IF i <= Len(w.heap.arrays[a])
       THEN IF w.room.publications[w.heap.arrays[a][i]].track
              THEN IssueUnpublish(w, c, w.heap.arrays[a][i], "unpubA")
              ELSE StopAudioLoop([w EXCEPT !.calls[c].idx = @ + 1], c)
       ELSE StopTail([w EXCEPT !.engine.audioTracksRef = None], c)

\* Line 48.
StopAudio(w, c) ==
  IF w.engine.audioTracksRef # None
    THEN StopAudioLoop([w EXCEPT !.calls[c].arr = w.engine.audioTracksRef,
                                 !.calls[c].idx = 1], c)
    ELSE StopTail(w, c)

\* Lines 39-46: stopSharing() up to its first suspension.
StopBegin(w, c) ==
  LET w1 == [w EXCEPT !.engine.isLoading = TRUE]
      v  == w.engine.videoTrackRef
  IN IF v # None /\ w.room.publications[v].track
       THEN IssueUnpublish(w1, c, v, "unpubV")
       ELSE StopAudio(w1, c)

\* An unpublish resolved: lines 45, or the next turn of the loop.
StopUnpublished(w, c) ==
  LET h  == w.calls[c].h
      w1 == [w EXCEPT !.room.publications[h].published = FALSE]
  IN IF w.calls[c].pc = "unpubV"
       THEN StopAudio([w1 EXCEPT !.engine.videoTrackRef = None], c)
       ELSE StopAudioLoop([w1 EXCEPT !.calls[c].idx = @ + 1], c)

\* StartCatch without the compensating stopSharing().
StartCatch_NoCleanup(w, c, what) ==
  Return(OnError([w EXCEPT !.engine.error = what,
                           !.engine.isLoading = FALSE,
                           !.calls[c].rejected = Append(@, what),
                           !.calls[c].pc = "done",
                           !.calls[c].result = "failed"], c, what), c)

\* Lines 145-152: play or a publish rejected, or captureStream() threw;
\* report, then compensate.
StartCatch(w, c, what) ==
  StopBegin(OnError([w EXCEPT !.engine.error = what,
                              !.calls[c].rejected = Append(@, what),
                              !.calls[c].comp = TRUE], c, what), c)

\* Lines 143-144 and the finally of line 154.
StartSuccess(w, c) ==
  Return(OnTrackPublished([w EXCEPT !.engine.isSharing = TRUE,
                                    !.engine.isLoading = FALSE,
                                    !.calls[c].pc = "done",
                                    !.calls[c].result = "ok"], c), c)

\* room.localParticipant.publishTrack(track, options) is issued.
IssuePublish(w, c, name, source, track, pc) ==
  [w EXCEPT !.calls[c].publishCalls =
               Append(@, [name |-> name, source |-> source, track |-> track,
                          stream |-> w.calls[c].stream]),
            !.calls[c].pc = pc]

\* StartAudioLoop publishing audioTracks[0] only.
StartAudioLoop_FirstOnly(w, c) ==
  IF w.calls[c].idx <= 1
    THEN IssuePublish(w, c, "shared-video-audio", "unknown",
                      <<"audio", w.calls[c].idx>>, "pubA")
    ELSE StartSuccess(w, c)

\* Lines 131-141: the audio loop at index idx.
StartAudioLoop(w, c) ==
  IF w.calls[c].idx <= w.calls[c].nA
    THEN IssuePublish(w, c, "shared-video-audio", "unknown",
                      <<"audio", w.calls[c].idx>>, "pubA")
    ELSE StartSuccess(w, c)

\* Line 131-132.
StartAudio(w, c) ==
  IF w.calls[c].nA > 0
    THEN LET a == Len(w.heap.arrays) + 1
         IN StartAudioLoop([w EXCEPT !.heap.arrays = Append(@, <<>>),
                                     !.engine.audioTracksRef = a,
                                     !.calls[c].idx = 1], c)
    ELSE StartSuccess(w, c)

\* Lines 110-128: capture the stream (it has nV video and nA audio
\* sub-tracks), publish its first video track.
StartCapture(w, c) ==
  LET s  == Len(w.heap.streams) + 1
      w1 == [w EXCEPT !.heap.streams =
                         Append(@, [nV |-> w.calls[c].nV, nA |-> w.calls[c].nA,
                                    frameRate |-> 30, stopped |-> FALSE]),
                      !.engine.streamRef = s,
                      !.calls[c].stream = s]
  IN IF w.heap.captureThrows
       THEN StartCatch(w, c, "capture failed")
     ELSE IF w.calls[c].nV > 0
       THEN IssuePublish(w1, c, "shared-video-file", "screen_share",
                         <<"video", 1>>, "pubV")
       ELSE StartAudio(w1, c)

\* StartBegin whose not-ready path also leaves Sharing.
StartBegin_NotReadyResets(w, c, sawSharing, nV, nA) ==
  LET el == w.calls[c].el
  IN IF el = NULL
       THEN Return(OnError([w EXCEPT !.engine.error = "Video element not ready",
                                     !.engine.isSharing = FALSE,
                                     !.calls[c].pc = "done",
                                     !.calls[c].result = "not ready"],
                           c, "Video element not ready"), c)
     ELSE IF sawSharing
       THEN Return([w EXCEPT !.calls[c].pc = "done",
                             !.calls[c].result = "already sharing"], c)
     ELSE LET w1 == [w EXCEPT !.engine.isLoading = TRUE,
                              !.engine.error = NULL,
                              !.elements[el].muted = FALSE,
                              !.elements[el].volume = 1,
                              !.calls[c].nV = nV,
                              !.calls[c].nA = nA]
          IN IF w.elements[el].paused
               THEN [w1 EXCEPT !.calls[c].pc = "play"]
               ELSE StartCapture(w1, c)

\* StartBegin without the isSharing guard of lines 89-91.
StartBegin_Unguarded(w, c, sawSharing, nV, nA) ==
  LET el == w.calls[c].el
  IN IF el = NULL
       THEN Return(OnError([w EXCEPT !.engine.error = "Video element not ready",
                                     !.calls[c].pc = "done",
                                     !.calls[c].result = "not ready"],
                           c, "Video element not ready"), c)
     ELSE LET w1 == [w EXCEPT !.engine.isLoading = TRUE,
                              !.engine.error = NULL,
                              !.elements[el].muted = FALSE,
                              !.elements[el].volume = 1,
                              !.calls[c].nV = nV,
                              !.calls[c].nA = nA]
          IN IF w.elements[el].paused
               THEN [w1 EXCEPT !.calls[c].pc = "play"]
               ELSE StartCapture(w1, c)

\* Lines 80-104: startSharing() up to its first suspension.  nV and nA are
\* the video and audio sub-tracks the element's media will yield.
StartBegin(w, c, sawSharing, nV, nA) ==
  LET el == w.calls[c].el
  IN IF el = NULL
       THEN Return(OnError([w EXCEPT !.engine.error = "Video element not ready",
                                     !.calls[c].pc = "done",
                                     !.calls[c].result = "not ready"],
                           c, "Video element not ready"), c)
     ELSE IF sawSharing
       THEN Return([w EXCEPT !.calls[c].pc = "done",
                             !.calls[c].result = "already sharing"], c)
     ELSE LET w1 == [w EXCEPT !.engine.isLoading = TRUE,
                              !.engine.error = NULL,
                              !.elements[el].muted = FALSE,
                              !.elements[el].volume = 1,
                              !.calls[c].nV = nV,
                              !.calls[c].nA = nA]
          IN IF w.elements[el].paused
               THEN [w1 EXCEPT !.calls[c].pc = "play"]
               ELSE StartCapture(w1, c)

\* StartPlayed going on to capture with the element still paused.
StartPlayed_StillPaused(w, c) ==
  StartCapture(w, c)

\* videoElement.play() resolved.
StartPlayed(w, c) ==
  StartCapture([w EXCEPT !.elements[w.calls[c].el].paused = FALSE], c)

\* StartPublished adding an audio handle at the front of the array.
StartPublished_Prepends(w, c) ==
  LET h  == Len(w.room.publications) + 1
      k  == IF w.calls[c].pc = "pubV" THEN "video" ELSE "audio"
      w1 == [w EXCEPT !.room.publications = Append(@, [kind |-> k, track |-> TRUE,
                                          published |-> TRUE,
                                          unpublishCalls |-> 0]),
                      !.calls[c].handles = Append(@, h)]
  IN IF k = "video"
       THEN StartAudio([w1 EXCEPT !.engine.videoTrackRef = h], c)
       ELSE LET a  == w1.engine.audioTracksRef
                w2 == IF a # None
                        THEN [w1 EXCEPT !.heap.arrays[a] = <<h>> \o @]
                        ELSE w1
            IN StartAudioLoop([w2 EXCEPT !.calls[c].idx = @ + 1], c)

\* A publishTrack resolved with a new publication handle: lines 127, 139.
StartPublished(w, c) ==
  LET h  == Len(w.room.publications) + 1
      k  == IF w.calls[c].pc = "pubV" THEN "video" ELSE "audio"
      w1 == [w EXCEPT !.room.publications = Append(@, [kind |-> k, track |-> TRUE,
                                          published |-> TRUE,
                                          unpublishCalls |-> 0]),
                      !.calls[c].handles = Append(@, h)]
  IN IF k = "video"
       THEN StartAudio([w1 EXCEPT !.engine.videoTrackRef = h], c)
       ELSE LET a  == w1.engine.audioTracksRef
                w2 == IF a # None
                        THEN [w1 EXCEPT !.heap.arrays[a] = Append(@, h)]
                        ELSE w1
            IN StartAudioLoop([w2 EXCEPT !.calls[c].idx = @ + 1], c)

\* The call that returned before a stop is invoked (the start it is paired
\* with).
NoPrev == [op |-> NULL, result |-> NULL, handles |-> <<>>]

Pre(w) ==
  LET done == {i \in 1..Len(w.calls) : w.calls[i].pc \in {"done", "past"}}
  IN IF done = {} THEN NoPrev
     ELSE LET d == w.calls[CHOOSE i \in done : TRUE]
          IN [op |-> d.op, result |-> d.result, handles |-> d.handles]

\* startSharing() is called: the closure is the one of the current render.
InvokeStart(w, caller, ctx, nV, nA) ==
  LET c == Len(w.calls) + 1
  IN StartBegin([w EXCEPT !.calls =
                   Append(@, NewCall("start", caller, w.share.videoElement,
                                     ctx, NoPrev))],
                c, w.engine.isSharing, nV, nA)

\* stopSharing() is called through a closure that captured element el.
InvokeStop(w, caller, ctx, el) ==
  LET c == Len(w.calls) + 1
  IN StopBegin([w EXCEPT !.calls =
                  Append(@, NewCall("stop", caller, el, ctx, Pre(w)))],
               c)

(***************************************************************************)
(* Bookkeeping of the model, not of the program: of the calls that have    *)
(* returned only the last is kept, and objects nothing refers to any more  *)
(* are forgotten (the remaining ones are renumbered in order of creation). *)
(* That a forgotten handle was still published, or a forgotten stream      *)
(* still running, is remembered in room.orphaned and heap.orphaned.        *)
(***************************************************************************)
RECURSIVE Pick(_, _, _)
Pick(seq, keep, i) ==
  IF i > Len(seq) THEN <<>>
  ELSE IF i \in keep THEN <<seq[i]>> \o Pick(seq, keep, i + 1)
  ELSE Pick(seq, keep, i + 1)

Range(seq) == {seq[i] : i \in 1..Len(seq)}

\* What is kept of a call once the task it returned in is over.
Past(r) ==
  IF r.pc = "done"
    THEN [NewCall(r.op, "user", NULL, NULL, NoPrev)
            EXCEPT !.pc = "past", !.result = r.result, !.handles = r.handles]
    ELSE r

Trim(old, new) ==
  LET n     == Len(new.calls)
      over  == {i \in 1..n : new.calls[i].pc \in {"done", "past"}}
      fresh == {i \in over : \/ i > Len(old.calls)
                             \/ old.calls[i].pc \notin {"done", "past"}}
      keep  == IF fresh = {} THEN 1..n ELSE (1..n \ over) \cup fresh
      clear(i) == IF i \in fresh
                    THEN [new.calls[i] EXCEPT !.h = None, !.arr = None,
                                              !.idx = 0]
                    ELSE Past(new.calls[i])
      kept  == Pick([i \in 1..n |-> clear(i)], keep, 1)
  IN [new EXCEPT !.calls = kept]

ElementSeq == <<"el1", "el2", "el3">>

Referenced(w) ==
  ({w.share.videoElement, w.share.stopHandlerRef.videoElement,
    w.controls.listeners}
     \cup {w.calls[c].el : c \in 1..Len(w.calls)}) \ {NULL}

\* The <video> a newly mounted VideoFilePlayer renders.
FreshElement(w) ==
  ElementSeq[CHOOSE i \in 1..Len(ElementSeq) :
               /\ ElementSeq[i] \notin Referenced(w)
               /\ \A j \in 1..(i - 1) : ElementSeq[j] \in Referenced(w)]

Forget(w) ==
  LET cs == 1..Len(w.calls)
      A  == ({w.engine.audioTracksRef} \cup {w.calls[c].arr : c \in cs})
              \ {None}
      H  == (({w.engine.videoTrackRef}
               \cup UNION {Range(w.heap.arrays[a]) : a \in A}
               \cup UNION {{w.calls[c].h} \cup Range(w.calls[c].handles)
                             \cup Range(w.calls[c].unpublishCalls)
                             \cup Range(w.calls[c].pre.handles)
                           : c \in cs})
              \ {None})
      S  == (({w.engine.streamRef}
               \cup UNION {{w.calls[c].stream}
                             \cup {p.stream : p \in Range(w.calls[c].publishCalls)}
                           : c \in cs})
              \ {None})
      rk(X, x) == IF x \in X THEN Cardinality({y \in X : y <= x}) ELSE None
      nth(X, i) == CHOOSE x \in X : rk(X, x) = i
      mapH(q) == [i \in 1..Len(q) |-> rk(H, q[i])]
      eng(e) == [e EXCEPT !.videoTrackRef = rk(H, @),
                          !.audioTracksRef = rk(A, @),
                          !.streamRef = rk(S, @)]
      call(r) == [r EXCEPT !.h = rk(H, @),
                           !.arr = rk(A, @),
                           !.stream = rk(S, @),
                           !.handles = mapH(@),
                           !.unpublishCalls = mapH(@),
                           !.publishCalls =
                              [i \in 1..Len(@) |->
                                 [@[i] EXCEPT !.stream = rk(S, @)]],
                           !.pre.handles = mapH(@)]
  IN [w EXCEPT
        !.elements = [e \in Elements |->
                        IF e \in Referenced(w) THEN @[e] ELSE InitElement],
        !.engine = eng(@),
        !.calls = [c \in cs |-> call(w.calls[c])],
        !.room.orphaned =
           @ \/ \E h \in 1..Len(w.room.publications) :
                  h \notin H /\ w.room.publications[h].published,
        !.heap.orphaned =
           @ \/ \E x \in 1..Len(w.heap.streams) :
                  x \notin S /\ ~w.heap.streams[x].stopped,
        !.heap.captureThrows =
           @ /\ \E c \in cs : w.calls[c].pc \notin {"done", "past"},
        !.heap.stopThrows =
           @ /\ \E c \in cs : w.calls[c].pc \notin {"done", "past"},
        !.room.publications =
           [i \in 1..Cardinality(H) |-> w.room.publications[nth(H, i)]],
        !.heap.arrays =
           [i \in 1..Cardinality(A) |-> mapH(w.heap.arrays[nth(A, i)])],
        !.heap.streams =
           [i \in 1..Cardinality(S) |-> w.heap.streams[nth(S, i)]]]

(***************************************************************************)
(* The engine on its own: a caller that waits for each call to return      *)
(* before it makes the next one.                                           *)
(***************************************************************************)
Init ==
  /\ engine = InitEngine
  /\ heap = InitHeap
  /\ room = InitRoom
  /\ calls = <<>>
  /\ elements = [e \in Elements |-> InitElement]
  /\ share = InitShare
  /\ controls = InitControls
  /\ ui = InitUi

InFlight == {c \in 1..Len(calls) : calls[c].pc \notin {"done", "past"}}
Quiet == InFlight = {}

\* The state a task starts in: the logs of the previous task are gone.
Now ==
  [World EXCEPT !.ui.attempt = NoAttempt, !.ui.returned = NULL,
                !.room.response = NoResponse,
                !.room.reRegistered = FALSE,
                !.heap.urls = [p \in Players |->
                                 [@[p] EXCEPT !.created = 0, !.revoked = 0]]]

Step(w) == SetWorld(Forget(Trim(World, Commit(World, w))))

StartSharing ==
  /\ Quiet
  /\ \E nV \in 0..MaxVideo, nA \in 0..MaxAudio :
       Step(InvokeStart(Now, "user", NULL, nV, nA))

StopSharing ==
  /\ Quiet
  /\ Step(InvokeStop(Now, "user", NULL, share.videoElement))

PlayResolved ==
  \E c \in InFlight :
    /\ calls[c].pc = "play"
    /\ Step(StartPlayed(Now, c))

PlayRejected ==
  \E c \in InFlight :
    /\ calls[c].pc = "play"
    /\ Step(StartCatch(Now, c, "play failed"))

PublishResolved ==
  \E c \in InFlight :
    /\ calls[c].pc \in {"pubV", "pubA"}
    /\ Step(StartPublished(Now, c))

PublishRejected ==
  \E c \in InFlight :
    /\ calls[c].pc \in {"pubV", "pubA"}
    /\ Step(StartCatch(Now, c, "publish failed"))

UnpublishResolved ==
  \E c \in InFlight :
    /\ calls[c].pc \in {"unpubV", "unpubA"}
    /\ Step(StopUnpublished(Now, c))

UnpublishRejected ==
  \E c \in InFlight :
    /\ calls[c].pc \in {"unpubV", "unpubA"}
    /\ Step(StopCatch(Now, c, "unpublish failed"))

\* The engine's videoElement option changes (setVideoElement).
SetVideoElement ==
  \E e \in {"el1", NULL} :
    /\ Quiet
    /\ e # share.videoElement
    /\ Step([Now EXCEPT !.share.videoElement = e])

EngineSteps ==
  \/ PlayResolved
  \/ PlayRejected
  \/ PublishResolved
  \/ PublishRejected
  \/ UnpublishResolved
  \/ UnpublishRejected

NextEngine ==
  \/ StartSharing
  \/ StopSharing
  \/ SetVideoElement
  \/ EngineSteps

SpecEngine == Init /\ [][NextEngine]_vars

(***************************************************************************)
(* The engine in a browser whose captureStream() and track stop() may      *)
(* throw.                                                                  *)
(***************************************************************************)
\* startSharing() is called in a browser where captureStream() throws or
\* not, and stop() of a track throws or not.
StartSharingFaulty ==
  /\ Quiet
  /\ \E nV \in 0..MaxAppTracks, nA \in 0..MaxAppTracks,
        cap \in BOOLEAN, stp \in BOOLEAN :
       Step(InvokeStart([Now EXCEPT !.heap.captureThrows = cap,
                                    !.heap.stopThrows = stp],
                        "user", NULL, nV, nA))

\* stopSharing() is called in a browser where stop() of a track throws or
\* not.
StopSharingFaulty ==
  /\ Quiet
  /\ \E stp \in BOOLEAN :
       Step(InvokeStop([Now EXCEPT !.heap.stopThrows = stp],
                       "user", NULL, share.videoElement))

NextFaults ==
  \/ StartSharingFaulty
  \/ StopSharingFaulty
  \/ SetVideoElement
  \/ EngineSteps

SpecFaults == Init /\ [][NextFaults]_vars

(***************************************************************************)
(* The engine given an element in any state: muted or not, silent or not,  *)
(* paused or already playing.                                              *)
(***************************************************************************)
\* The engine's videoElement option changes to an element in some state, or
\* to null.
BindElement ==
  \E e \in {"el1", NULL}, m \in BOOLEAN, v \in {0, 1}, p \in BOOLEAN :
    /\ Quiet
    /\ e # share.videoElement
    /\ e = NULL => (~m /\ v = 1 /\ p)
    /\ Step([Now EXCEPT !.share.videoElement = e,
                        !.elements["el1"].muted = m,
                        !.elements["el1"].volume = v,
                        !.elements["el1"].paused = p])

\* startSharing() is called on a stream of few tracks.
StartSharingBound ==
  /\ Quiet
  /\ \E nV \in 0..MaxAppTracks, nA \in 0..MaxAppTracks :
       Step(InvokeStart(Now, "user", NULL, nV, nA))

NextAudible ==
  \/ StartSharingBound
  \/ StopSharing
  \/ BindElement
  \/ EngineSteps

SpecAudible == Init /\ [][NextAudible]_vars

(***************************************************************************)
(* The engine in a room and a browser whose promises all settle: a play,   *)
(* publish or unpublish that is pending is eventually resolved or          *)
(* rejected.  The caller is not obliged to do anything.                    *)
(***************************************************************************)
NextSettling ==
  \/ StartSharingBound
  \/ StopSharing
  \/ SetVideoElement
  \/ EngineSteps

\* Weak fairness of EngineSteps, WF_vars(EngineSteps), written out as
\* []<>~ENABLED <<EngineSteps>>_vars \/ []<><<EngineSteps>>_vars with the
\* enabling condition as the state predicate it is: a call is suspended at a
\* play, a publish or an unpublish exactly when it is in flight.
Settling == []<>(InFlight = {}) \/ []<><<EngineSteps>>_vars

SpecSettling == Init /\ [][NextSettling]_vars /\ Settling

(***************************************************************************)
(* The engine under callers that do not wait: startSharing() and           *)
(* stopSharing() are async functions of a hook and nothing in them refuses *)
(* a call made while an earlier one is suspended at an await.              *)
(***************************************************************************)
\* startSharing() is called, whatever is in flight.
StartSharingAnytime ==
  /\ Cardinality(InFlight) < MaxInFlight
  /\ \E nV \in 0..MaxAppTracks, nA \in 0..MaxAppTracks :
       Step(InvokeStart(Now, "user", NULL, nV, nA))

\* stopSharing() is called, whatever is in flight.
StopSharingAnytime ==
  /\ Cardinality(InFlight) < MaxInFlight
  /\ Step(InvokeStop(Now, "user", NULL, share.videoElement))

\* Every play, publish and unpublish resolves: the interleavings of the
\* calls are what this specification explores.
NextOverlap ==
  \/ StartSharingAnytime
  \/ StopSharingAnytime
  \/ SetVideoElement
  \/ PlayResolved
  \/ PublishResolved
  \/ UnpublishResolved

SpecOverlap == Init /\ [][NextOverlap]_vars

(***************************************************************************)
(* The share panel: ShareToggle, ShareProvider with its file input and its *)
(* VideoFilePlayer, and the two tabs of ShareModal.  Tabs renders only the *)
(* tab shown, so VideoShareTab and its engine exist only while tabIndex is *)
(* 1.  Two restrictions keep the engine's calls one after the other:       *)
(* stop() calls a stop handler only when no call is in flight, and the     *)
(* video tab is left only when its engine is idle.                         *)
(***************************************************************************)
\* A video, a text file, and a file whose type the browser does not know.
Files == {"clip.mp4", "notes.txt", "blob"}

\* File.type, as its sequence of characters.
FileType(f) ==
  CASE f = "clip.mp4"  -> <<"v", "i", "d", "e", "o", "/", "m", "p", "4">>
    [] f = "notes.txt" -> <<"t", "e", "x", "t", "/", "p", "l", "a", "i", "n">>
    [] OTHER           -> <<>>

\* String.prototype.startsWith.
startsWith(str, prefix) ==
  /\ Len(str) >= Len(prefix)
  /\ SubSeq(str, 1, Len(prefix)) = prefix

\* file.type.startsWith('video/')
IsVideo(f) == startsWith(FileType(f), <<"v", "i", "d", "e", "o", "/">>)

\* The file input's onChange (part_004:465-470) and what the render after it
\* does: VideoFilePlayer mounts and reports its element, or, already
\* mounted, loads the new file into its element.
FileInputOnChange(w, f) ==
  LET w0 == [w EXCEPT !.ui.attempt =
                         [entry |-> "provider", file |-> f,
                          before |-> w.share.selectedFile]]
      e  == w.share.videoElement
  IN IF ~IsVideo(f) THEN w0
     ELSE IF w.share.selectedFile = NULL \/ e = NULL
       THEN LET n == FreshElement(w)
            IN [w0 EXCEPT !.share.selectedFile = f,
                          !.share.videoElement = n,
                          !.elements[n] = InitElement]
     ELSE [w0 EXCEPT !.share.selectedFile = f,
                     !.elements[e].paused = TRUE,
                     !.elements[e].currentTime = 0,
                     !.elements[e].duration = NaN,
                     !.elements[e].playbackRate = 1]

\* ScreenShareTab's onChange(isEnabled), lines 55-64.
ScreenOnChange(w, isEnabled) ==
  IF isEnabled
    THEN Close([SetSharing(w, "screen") EXCEPT
                  !.share.stopHandlerRef =
                     [fn |-> "toggle", videoElement |-> NULL, dead |-> FALSE]])
    ELSE [SetSharing(w, NULL) EXCEPT !.share.stopHandlerRef = NoHandler]

\* ShareProvider.stop(), lines 401-416, up to its first suspension.  ctx is
\* the activeType of the render the callback was created in.  A handler of
\* an unmounted VideoShareTab finds its refs empty and only pauses.
Stop(w) ==
  LET h   == w.share.stopHandlerRef
      ctx == w.share.activeType
      c   == Len(w.calls) + 1
  IN CASE h.fn = NULL ->
            [StopResume(w, ctx) EXCEPT !.ui.returned = "stop"]
       [] h.fn = "stopSharing" /\ h.dead ->
            [StopResume([w EXCEPT !.elements[h.videoElement].paused = TRUE],
                        ctx)
               EXCEPT !.ui.returned = "stop"]
       [] h.fn = "stopSharing" /\ ~h.dead ->
            InvokeStop(w, "stop", ctx, h.videoElement)
       [] OTHER ->
            [w EXCEPT !.calls =
                         Append(@, [NewCall("toggle", "stop", NULL, ctx, Pre(w))
                                      EXCEPT !.pc = "toggle"])]

IdleEngine(e) ==
  /\ ~e.isSharing
  /\ ~e.isLoading
  /\ e.videoTrackRef = None
  /\ e.audioTracksRef = None
  /\ e.streamRef = None

\* ShareToggle.handleClick, part_004:18-31.
HandleClick ==
  IF share.activeType # NULL
    THEN /\ (share.stopHandlerRef.fn = NULL \/ share.stopHandlerRef.dead
               \/ Quiet)
         /\ Step(Stop(Now))
    ELSE IF share.isOpen THEN Step(Close(Now)) ELSE Step(Open(Now))

\* Tabs: a tab button is clicked (part_006:14-16).  The tab left is
\* unmounted: a VideoShareTab takes its message and its engine with it.
SetTabIndex ==
  \E i \in {0, 1} :
    /\ share.isOpen
    /\ i # ui.tabIndex
    /\ IF ui.tabIndex = 1
         THEN /\ IdleEngine(engine)
              /\ Step([Now EXCEPT
                         !.ui.tabIndex = i,
                         !.ui.localError = NULL,
                         !.engine = InitEngine,
                         !.share.stopHandlerRef.dead =
                            (@ \/ share.stopHandlerRef.fn = "stopSharing")])
         ELSE Step([Now EXCEPT !.ui.tabIndex = i])

\* "Choose Video File" (part_006:93-95, 117) and the file the user picks.
ChooseFile ==
  \E f \in Files :
    /\ share.isOpen
    /\ ui.tabIndex = 1
    /\ Step(FileInputOnChange(Now, f))

\* VideoShareTab.handleStart, part_006:97-108, behind the button's
\* disabled={!selectedFile || isLoading}.
HandleStart ==
  /\ share.isOpen
  /\ ui.tabIndex = 1
  /\ share.selectedFile # NULL
  /\ ~engine.isLoading
  /\ \E nV \in 0..MaxAppTracks, nA \in 0..MaxAppTracks :
       IF share.videoElement = NULL
         THEN Step([Now EXCEPT !.ui.localError = "Video element not ready"])
         ELSE Step(InvokeStart(SetSharing(Now, "video"),
                               "handleStart", NULL, nV, nA))

\* The screen-share track goes on (the tab's button, then the browser's
\* picker): onChange(true).
ScreenEnabled ==
  /\ share.isOpen
  /\ ui.tabIndex = 0
  /\ ~ui.enabled
  /\ Step(ScreenOnChange([Now EXCEPT !.ui.enabled = TRUE], TRUE))

\* The screen-share track goes off (the tab's button, or the browser's own
\* "stop sharing"): onChange(false), if the tab is there to hear it.
ScreenDisabled ==
  /\ ui.enabled
  /\ Quiet
  /\ LET w == [Now EXCEPT !.ui.enabled = FALSE]
     IN Step(IF ui.tabIndex = 0 THEN ScreenOnChange(w, FALSE) ELSE w)

\* toggle(false) of the screen-share stop handler resolved.
ToggleResolved ==
  \E c \in InFlight :
    /\ calls[c].pc = "toggle"
    /\ LET w  == [Now EXCEPT !.ui.enabled = FALSE,
                             !.calls[c].pc = "done",
                             !.calls[c].result = "ok"]
           w1 == IF ui.tabIndex = 0 /\ ui.enabled
                   THEN ScreenOnChange(w, FALSE) ELSE w
       IN Step(Return(w1, c))

\* toggle(false) rejected; stop() swallows it.
ToggleRejected ==
  \E c \in InFlight :
    /\ calls[c].pc = "toggle"
    /\ Step(Return([Now EXCEPT !.calls[c].pc = "done",
                               !.calls[c].result = "failed"], c))

NextApp ==
  \/ HandleClick
  \/ SetTabIndex
  \/ ChooseFile
  \/ HandleStart
  \/ ScreenEnabled
  \/ ScreenDisabled
  \/ ToggleResolved
  \/ ToggleRejected
  \/ EngineSteps

SpecApp == Init /\ [][NextApp]_vars

(***************************************************************************)
(* The share panel with the tab buttons usable at any time: Tabs puts no   *)
(* condition on setTabIndex, so the video tab can be left while its        *)
(* startSharing() is suspended.  The async function goes on running on the *)
(* refs of the unmounted VideoShareTab; the engine record stays that       *)
(* instance until a new VideoShareTab is mounted.                          *)
(***************************************************************************)
SetTabIndexAnytime ==
  \E i \in {0, 1} :
    /\ share.isOpen
    /\ i # ui.tabIndex
    /\ IF ui.tabIndex = 1
         THEN Step([Now EXCEPT !.ui.tabIndex = i])
         ELSE /\ Quiet
              /\ IdleEngine(engine)
              /\ Step([Now EXCEPT
                         !.ui.tabIndex = i,
                         !.ui.localError = NULL,
                         !.engine = InitEngine,
                         !.share.stopHandlerRef.dead =
                            (@ \/ share.stopHandlerRef.fn = "stopSharing")])

NextTabs ==
  \/ HandleClick
  \/ SetTabIndexAnytime
  \/ ChooseFile
  \/ HandleStart
  \/ ScreenEnabled
  \/ ScreenDisabled
  \/ ToggleResolved
  \/ ToggleRejected
  \/ EngineSteps

SpecTabs == Init /\ [][NextTabs]_vars

(***************************************************************************)
(* The panel with a further consumer of the share context, which calls     *)
(* the operations useShare() hands out (part_004:426-453) at any time, in  *)
(* a session whose play, publish, unpublish and toggle calls all resolve.  *)
(***************************************************************************)
NextResolving ==
  \/ HandleClick
  \/ SetTabIndex
  \/ ChooseFile
  \/ HandleStart
  \/ ScreenEnabled
  \/ ScreenDisabled
  \/ ToggleResolved
  \/ PlayResolved
  \/ PublishResolved
  \/ UnpublishResolved

OpenPanel == Step([Open(Now) EXCEPT !.ui.returned = "open"])

ClosePanel == Step([Close(Now) EXCEPT !.ui.returned = "close"])

TogglePanel == Step([Toggle(Now) EXCEPT !.ui.returned = "toggle"])

NextPanel ==
  \/ NextResolving
  \/ OpenPanel
  \/ ClosePanel
  \/ TogglePanel

SpecPanel == Init /\ [][NextPanel]_vars

SetSharingAt(type) ==
  Step([SetSharing(Now, type) EXCEPT !.ui.returned = "setSharing"])

SetSharingCall ==
  \E type \in {"screen", "video", NULL} : SetSharingAt(type)

NextMode ==
  \/ NextResolving
  \/ SetSharingCall

SpecMode == Init /\ [][NextMode]_vars

(***************************************************************************)
(* useVideoControls on its own: its two props are set by its owner, the    *)
(* bound element plays and emits events, the control surface is used, and  *)
(* remote participants call the two registered operations.                 *)
(***************************************************************************)
Duration == 60                   \* the length of the media, in seconds
Times == {0, 10, 50}             \* positions playback and seeks reach
Volumes == {0, 1}
Rates == {1, 2}

\* RpcInvocationData.payload of the calls made, as sequences of characters.
Payloads == {<<"-", "2", "0">>, <<"2", "0">>, <<>>, <<"x">>}

DigitChars == <<"0", "1", "2", "3", "4", "5", "6", "7", "8", "9">>

RECURSIVE Digits(_)
Digits(n) ==
  IF n < 10 THEN <<DigitChars[n + 1]>>
  ELSE Append(Digits(n \div 10), DigitChars[(n % 10) + 1])

\* String(x) for a number.
StringOfNumber(x) ==
  IF IsNaN(x) THEN <<"N", "a", "N">>
  ELSE IF x < 0 THEN <<"-">> \o Digits(0 - x)
  ELSE Digits(x)

\* String(b) for a boolean.
StringOfBoolean(b) ==
  IF b THEN <<"t", "r", "u", "e">> ELSE <<"f", "a", "l", "s", "e">>

IsDigit(ch) == \E i \in 1..10 : DigitChars[i] = ch
DigitValue(ch) == (CHOOSE i \in 1..10 : DigitChars[i] = ch) - 1

RECURSIVE Decimal(_, _)
Decimal(str, acc) ==
  IF str = <<>> THEN acc
  ELSE IF ~IsDigit(Head(str)) THEN NaN
  ELSE Decimal(Tail(str), acc * 10 + DigitValue(Head(str)))

\* Number(str), for the payloads above: the empty string is 0, an
\* optionally signed run of digits is its value, anything else is NaN.
Number(str) ==
  IF str = <<>> THEN 0
  ELSE IF Head(str) \in {"-", "+"}
    THEN IF Tail(str) = <<>> THEN NaN
         ELSE LET v == Decimal(Tail(str), 0)
              IN IF IsNaN(v) THEN NaN
                 ELSE IF Head(str) = "-" THEN 0 - v ELSE v
  ELSE Decimal(str, 0)

\* a + b, Math.max(a, b), Math.min(a, b) on numbers that may be NaN.
Plus(a, b) == IF IsNaN(a) \/ IsNaN(b) THEN NaN ELSE a + b
MathMax(a, b) == IF IsNaN(a) \/ IsNaN(b) THEN NaN ELSE IF a >= b THEN a ELSE b
MathMin(a, b) == IF IsNaN(a) \/ IsNaN(b) THEN NaN ELSE IF a <= b THEN a ELSE b

\* The log of a served pause/resume call: what was returned, the read
\* model's isPlaying when the call arrived, and what the call returned if it
\* was also served in the task before.
PauseResponse(result) ==
  [NoResponse EXCEPT
     !.method = PAUSE_STREAM_METHOD,
     !.result = result,
     !.prior = IF room.response.method = PAUSE_STREAM_METHOD
                 THEN room.response.result ELSE <<>>,
     !.isPlaying = controls.isPlaying]

\* The log of a served seek call: the payload, what was returned, and the
\* read model's currentTime and duration when the call arrived.
SeekResponse(payload, result) ==
  [NoResponse EXCEPT
     !.method = SEEK_STREAM_METHOD,
     !.payload = payload,
     !.result = result,
     !.currentTime = controls.currentTime,
     !.duration = controls.duration]

\* A state setter of the hook: a no-op once the hook is unmounted.
SetControls(w, field, value) ==
  IF w.controls.mounted THEN [w EXCEPT !.controls[field] = value] ELSE w

\* The handler registered for PAUSE_STREAM_METHOD, lines 57-60; isPlaying is
\* the one of the render the effect ran in.
PauseHandler(w) ==
  LET k == w.room.rpc[PAUSE_STREAM_METHOD]
  IN [SetControls(w, "isPlaying", ~k.isPlaying) EXCEPT
        !.room.response =
           PauseResponse(StringOfBoolean(k.isPlaying))]

\* SeekHandler that also moves the element.
SeekHandler_SeeksElement(w, payload) ==
  LET k      == w.room.rpc[SEEK_STREAM_METHOD]
      offset == Number(payload)
      t      == MathMin(MathMax(0, Plus(k.currentTime, offset)), k.duration)
      el     == w.share.videoElement
      w1     == IF el = NULL THEN w
                ELSE [w EXCEPT !.elements[el].currentTime = t]
  IN [SetControls(w1, "currentTime", t)
        EXCEPT !.room.response =
                  SeekResponse(payload, StringOfNumber(k.currentTime))]

\* The handler registered for SEEK_STREAM_METHOD, lines 62-66; currentTime
\* and duration are the ones of the render the effect ran in.
SeekHandler(w, payload) ==
  LET k      == w.room.rpc[SEEK_STREAM_METHOD]
      offset == Number(payload)
  IN [SetControls(w, "currentTime",
                  MathMin(MathMax(0, Plus(k.currentTime, offset)), k.duration))
        EXCEPT !.room.response =
                  SeekResponse(payload, StringOfNumber(k.currentTime))]

\* The owner re-renders with videoSharingActive changed.
SetVideoSharingActive ==
  \E t \in {"video", NULL} :
    /\ controls.mounted
    /\ t # share.activeType
    /\ Step([Now EXCEPT !.share.activeType = t])

\* The media's metadata arrives: the element's duration becomes known.
MediaLoaded ==
  \E e \in Elements :
    /\ e = share.videoElement
    /\ IsNaN(elements[e].duration)
    /\ Step([Now EXCEPT !.elements[e].duration = Duration])

\* Playback moves the element's position.
MediaAdvance ==
  \E e \in Elements, t \in Times :
    /\ e = share.videoElement
    /\ ~elements[e].paused
    /\ t > elements[e].currentTime
    /\ Step([Now EXCEPT !.elements[e].currentTime = t])

\* A 'timeupdate' whose listener leaves the read model as it is.
TimeUpdate_KeepsOptimistic ==
  /\ controls.listeners # NULL
  /\ Step([Now EXCEPT !.ui.returned = "timeupdate"])

\* 'timeupdate' reaches updateTime (line 46).
TimeUpdate ==
  /\ controls.listeners # NULL
  /\ Step([SetControls(Now, "currentTime",
                       elements[controls.listeners].currentTime)
             EXCEPT !.ui.returned = "timeupdate"])

\* 'durationchange' reaches updateDuration (line 47).
DurationChange ==
  /\ controls.listeners # NULL
  /\ Step(SetControls(Now, "duration", elements[controls.listeners].duration))

\* 'play', 'pause' or 'ended' reaches updatePlaying (line 48).
PlayingChange ==
  /\ controls.listeners # NULL
  /\ Step([SetControls(Now, "isPlaying",
                       ~elements[controls.listeners].paused)
             EXCEPT !.ui.returned = "playing"])

\* The memo with the mode test dropped.
VideoControls_ElementOnly(w) ==
  IF w.share.videoElement = NULL
    THEN <<>>
    ELSE <<[isPlaying |-> w.controls.isPlaying,
            currentTime |-> w.controls.currentTime,
            duration |-> w.controls.duration,
            volume |-> w.controls.volume,
            playbackRate |-> w.controls.playbackRate]>>

\* The videoControls memo, lines 122-148, as ShareProvider wires it (part_004
\* lines 418-424): <<>> stands for null, <<o>> for the object o.
VideoControls(w) ==
  IF ~VideoSharingActive(w) \/ w.share.videoElement = NULL
    THEN <<>>
    ELSE <<[isPlaying |-> w.controls.isPlaying,
            currentTime |-> w.controls.currentTime,
            duration |-> w.controls.duration,
            volume |-> w.controls.volume,
            playbackRate |-> w.controls.playbackRate]>>

\* A caller can reach the four handlers only through a non-null memo.
Surface ==
  /\ controls.mounted
  /\ VideoControls(World) # <<>>

\* handlePlayPause, lines 85-92; el is the videoElement of its closure.
PlayPause(w, el) ==
  IF el = NULL THEN w ELSE [w EXCEPT !.elements[el].paused = ~@]

\* handleSeek that updates the read model before it looks at the element.
Seek_SetsBeforeGuard(w, el, t) ==
  IF el = NULL
    THEN SetControls(w, "currentTime", t)
    ELSE SetControls([w EXCEPT !.elements[el].currentTime = t],
                     "currentTime", t)

\* handleSeek(time), lines 94-101.
Seek(w, el, t) ==
  IF el = NULL
    THEN w
    ELSE SetControls([w EXCEPT !.elements[el].currentTime = t],
                     "currentTime", t)

\* handleVolumeChange(vol), lines 103-110.
VolumeChange(w, el, v) ==
  IF el = NULL
    THEN w
    ELSE SetControls([w EXCEPT !.elements[el].volume = v], "volume", v)

\* handlePlaybackRateChange(rate), lines 112-119.
PlaybackRateChange(w, el, r) ==
  IF el = NULL
    THEN w
    ELSE SetControls([w EXCEPT !.elements[el].playbackRate = r],
                     "playbackRate", r)

\* The four handlers called through the control surface.
\* handlePlayPause that also flips the read model's isPlaying.
HandlePlayPause_Optimistic ==
  /\ Surface
  /\ Step([PlayPause(Now, share.videoElement) EXCEPT
             !.controls.isPlaying = ~@,
             !.ui.returned = "handlePlayPause"])

HandlePlayPause ==
  /\ Surface
  /\ Step([PlayPause(Now, share.videoElement) EXCEPT
             !.ui.returned = "handlePlayPause"])

\* handleSeek that leaves the read model to the next 'timeupdate'.
HandleSeekAt_ElementOnly(t) ==
  /\ Surface
  /\ Step([Now EXCEPT !.elements[share.videoElement].currentTime = t,
                      !.ui.returned = "handleSeek"])

HandleSeekAt(t) ==
  /\ Surface
  /\ Step([Seek(Now, share.videoElement, t) EXCEPT
             !.ui.returned = "handleSeek"])

HandleSeek ==
  \E t \in Times : HandleSeekAt(t)

HandleVolumeChange ==
  \E v \in Volumes :
    /\ Surface
    /\ Step(VolumeChange(Now, share.videoElement, v))

HandlePlaybackRateChange ==
  \E r \in Rates :
    /\ Surface
    /\ Step(PlaybackRateChange(Now, share.videoElement, r))

\* A remote participant calls PausePlayStream.
RpcPause ==
  /\ room.rpc[PAUSE_STREAM_METHOD].registered
  /\ Step(PauseHandler(Now))

\* A remote participant calls SeekStream with an offset.
RpcSeek ==
  \E payload \in Payloads :
    /\ room.rpc[SEEK_STREAM_METHOD].registered
    /\ Step(SeekHandler(Now, payload))

\* The component that uses the hook is removed: the effect's cleanup runs.
Unmount ==
  /\ controls.mounted
  /\ Step(ControlsCleanup([Now EXCEPT !.controls.mounted = FALSE]))

NextMirror ==
  \/ SetVideoElement
  \/ SetVideoSharingActive
  \/ MediaLoaded
  \/ MediaAdvance
  \/ TimeUpdate
  \/ DurationChange
  \/ PlayingChange
  \/ HandlePlayPause
  \/ HandleSeek
  \/ HandleVolumeChange
  \/ HandlePlaybackRateChange
  \/ RpcPause
  \/ RpcSeek
  \/ Unmount

SpecMirror == Init /\ [][NextMirror]_vars

(***************************************************************************)
(* useVideoControls given any element: its videoElement prop goes from one *)
(* element to another, and the component that uses it is mounted again     *)
(* after an unmount (the room outlives it).                                *)
(***************************************************************************)
\* The hook's videoElement prop changes.
SetVideoElementTo ==
  \E e \in {"el1", "el2", NULL} :
    /\ controls.mounted
    /\ e # share.videoElement
    /\ Step([Now EXCEPT !.share.videoElement = e])

\* The component is mounted again: new state, and the effect runs.
Mount ==
  /\ ~controls.mounted
  /\ Step(ControlsEffectBody([Now EXCEPT !.controls = InitControls]))

NextRegistry ==
  \/ SetVideoElementTo
  \/ SetVideoSharingActive
  \/ MediaLoaded
  \/ TimeUpdate
  \/ DurationChange
  \/ PlayingChange
  \/ HandlePlayPause
  \/ HandleSeek
  \/ RpcPause
  \/ RpcSeek
  \/ Unmount
  \/ Mount

SpecRegistry == Init /\ [][NextRegistry]_vars

(***************************************************************************)
(* The four callbacks of a render in which no element is bound, called     *)
(* directly rather than through the memo (which is null in that render).   *)
(***************************************************************************)
PlayPauseUnbound ==
  /\ controls.mounted
  /\ share.videoElement = NULL
  /\ Step([PlayPause(Now, share.videoElement) EXCEPT
             !.ui.returned = "handlePlayPause"])

SeekUnbound ==
  \E t \in Times :
    /\ controls.mounted
    /\ share.videoElement = NULL
    /\ Step([Seek(Now, share.videoElement, t) EXCEPT
               !.ui.returned = "handleSeek"])

VolumeChangeUnbound ==
  \E v \in Volumes :
    /\ controls.mounted
    /\ share.videoElement = NULL
    /\ Step([VolumeChange(Now, share.videoElement, v) EXCEPT
               !.ui.returned = "handleVolumeChange"])

PlaybackRateChangeUnbound ==
  \E r \in Rates :
    /\ controls.mounted
    /\ share.videoElement = NULL
    /\ Step([PlaybackRateChange(Now, share.videoElement, r) EXCEPT
               !.ui.returned = "handlePlaybackRateChange"])

NextHandlers ==
  \/ SetVideoElement
  \/ SetVideoSharingActive
  \/ MediaLoaded
  \/ MediaAdvance
  \/ TimeUpdate
  \/ DurationChange
  \/ PlayingChange
  \/ HandlePlayPause
  \/ HandleSeek
  \/ HandleVolumeChange
  \/ HandlePlaybackRateChange
  \/ PlayPauseUnbound
  \/ SeekUnbound
  \/ VolumeChangeUnbound
  \/ PlaybackRateChangeUnbound

SpecHandlers == Init /\ [][NextHandlers]_vars

(***************************************************************************)
(* File selection at its two entry points: the file input ShareProvider    *)
(* renders (reached from the video tab), and the one of VideoFileModal.    *)
(* Neither component starts a share here, so the modal's isSharing is      *)
(* false throughout.                                                       *)
(***************************************************************************)
\* The messages VideoFilePlayer.handleError reports (part_002:46-71).
PlayerErrors == {"Failed to load video file", "Video format not supported"}

\* VideoFileModal.handleFileSelect, lines 29-44; f is e.target.files?.[0].
ModalFileSelect(w, f) ==
  IF f = NULL THEN w
  ELSE LET w0 == [w EXCEPT !.ui.attempt =
                              [entry |-> "modal", file |-> f,
                               before |-> w.ui.selectedFile]]
       IN IF ~IsVideo(f)
            THEN [w0 EXCEPT !.ui.error = "Please select a valid video file"]
            ELSE [w0 EXCEPT !.ui.selectedFile = f, !.ui.error = NULL]

\* The owner of VideoFileModal shows it.
ModalOpen ==
  /\ ~ui.modalOpen
  /\ Step([Now EXCEPT !.ui.modalOpen = TRUE])

\* The modal's file input changes (or its dialog is dismissed: no file).
ModalHandleFileSelect ==
  \E f \in Files \cup {NULL} :
    /\ ui.modalOpen
    /\ Step(ModalFileSelect(Now, f))

\* The modal's VideoFilePlayer reports a media error: lines 117-121.
ModalPlayerError ==
  \E msg \in PlayerErrors :
    /\ ui.modalOpen
    /\ ui.selectedFile # NULL
    /\ Step([Now EXCEPT !.ui.error = msg])

\* VideoFileModal.handleClose, lines 59-67.
ModalHandleClose ==
  /\ ui.modalOpen
  /\ Step([Now EXCEPT !.ui.selectedFile = NULL,
                      !.ui.error = NULL,
                      !.ui.modalOpen = FALSE])

NextFiles ==
  \/ HandleClick
  \/ SetTabIndex
  \/ ChooseFile
  \/ ModalOpen
  \/ ModalHandleFileSelect
  \/ ModalPlayerError
  \/ ModalHandleClose

SpecFiles == Init /\ [][NextFiles]_vars

(***************************************************************************)
(* Properties of the engine.                                               *)
(***************************************************************************)
Done(c) == calls[c].pc = "done"
Calls == 1..Len(calls)

\* The publish calls a start owes a stream of nV video and nA audio tracks.
ExpectedPublishCalls(stream, nV, nA) ==
  (IF nV > 0
     THEN <<[name |-> "shared-video-file", source |-> "screen_share",
             track |-> <<"video", 1>>, stream |-> stream]>>
     ELSE <<>>)
  \o [i \in 1..nA |-> [name |-> "shared-video-audio", source |-> "unknown",
                       track |-> <<"audio", i>>, stream |-> stream]]

Count(seq, x) == Cardinality({i \in 1..Len(seq) : seq[i] = x})

\* C1: a startSharing() in which play and every publish resolved leaves
\* isSharing true, having published the first video sub-track once (if
\* there is one) and every audio sub-track once; after the stopSharing()
\* paired with it, in which every unpublish resolved, each handle of those
\* publishes has been passed to unpublish exactly once.
C1_PublishOnceUnpublishOnce ==
  \A c \in Calls :
    /\ (Quiet /\ Done(c) /\ calls[c].op = "start" /\ calls[c].result = "ok") =>
         /\ engine.isSharing
         /\ calls[c].publishCalls =
              ExpectedPublishCalls(calls[c].stream, calls[c].nV, calls[c].nA)
         /\ Len(calls[c].handles) = Len(calls[c].publishCalls)
    /\ (Done(c) /\ calls[c].op = "stop" /\ calls[c].result = "ok"
          /\ calls[c].pre.op = "start" /\ calls[c].pre.result = "ok") =>
         \A h \in Range(calls[c].pre.handles) :
           /\ room.publications[h].unpublishCalls = 1
           /\ Count(calls[c].unpublishCalls, h) = 1
           /\ ~room.publications[h].published

C1_Witness ==
  \E c \in Calls :
    /\ Done(c) /\ calls[c].op = "stop" /\ calls[c].result = "ok"
    /\ calls[c].pre.op = "start" /\ calls[c].pre.result = "ok"
    /\ Len(calls[c].pre.handles) = 1 + MaxAudio

FailedPublish(c) ==
  /\ Done(c)
  /\ calls[c].op = "start"
  /\ \E i \in 1..Len(calls[c].rejected) : calls[c].rejected[i] = "publish failed"

Cleared ==
  /\ ~engine.isSharing
  /\ engine.streamRef = None
  /\ engine.videoTrackRef = None
  /\ engine.audioTracksRef = None

C5_StopIdleIsIdempotent ==
  [][(IdleEngine(engine) /\ StopSharing) =>
       /\ engine' = engine
       /\ calls' = <<[calls'[1] EXCEPT !.onError = 0,
                                       !.onTrackUnpublished = 1,
                                       !.unpublishCalls = <<>>,
                                       !.rejected = <<>>,
                                       !.result = "ok",
                                       !.pc = "done"]>>]_vars

C5_Witness ==
  /\ IdleEngine(engine)
  /\ Len(calls) = 1
  /\ calls[1].op = "stop" /\ calls[1].result = "ok"
  /\ calls[1].pre.op = "stop" /\ calls[1].pre.result = "ok"
  /\ calls[1].onTrackUnpublished = 1
  /\ calls[1].unpublishCalls = <<>>

\* The record of a call that returned at once without a play, a capture, a
\* publish or an unpublish, with onError invoked n times and no other
\* callback.
Untouched(r, result, n) ==
  r = [r EXCEPT !.pc = "done", !.result = result, !.onError = n,
                !.onTrackPublished = 0, !.onTrackUnpublished = 0,
                !.stream = None, !.publishCalls = <<>>, !.handles = <<>>,
                !.unpublishCalls = <<>>, !.rejected = <<>>]

\* C11: startSharing() with no element bound invokes onError once, sets the
\* error state, and changes nothing else: isSharing, isLoading, the three
\* refs and the elements are as before, and the call issues no play, capture,
\* publish or unpublish.
C11_StartWithoutElementOnlyReports ==
  [][(share.videoElement = NULL /\ StartSharing) =>
       /\ engine' = [engine EXCEPT !.error = "Video element not ready"]
       /\ elements' = elements
       /\ Len(calls') = 1
       /\ Untouched(calls'[1], "not ready", 1)]_vars

C11_Witness ==
  /\ Len(calls) = 1
  /\ Untouched(calls[1], "not ready", 1)
  /\ engine.isSharing
  /\ engine.streamRef # None
  /\ engine.error = "Video element not ready"

C3_StopClearsModeAndHandler ==
  ui.returned = "stop" =>
    /\ share.activeType = NULL
    /\ share.stopHandlerRef.fn = NULL

\* C4: in every state the panel reaches through the screen-share tab, the
\* video tab's start handler and stop(), the stored stop handler is
\* non-null if and only if activeType is not null.
C4_HandlerIffActive ==
  (share.stopHandlerRef.fn # NULL) <=> (share.activeType # NULL)

VideoHandles(q) ==
  {i \in 1..Len(q) : room.publications[q[i]].kind = "video"}
AudioHandles(q) ==
  {i \in 1..Len(q) : room.publications[q[i]].kind = "audio"}

\* C10: the scenario, step by step.  A video file picked in the panel
\* becomes the selected file and gets a bound element.  When handleStart
\* returns from a start that succeeded on the element still bound, the
\* engine is sharing, it holds the video handle of that start if the stream
\* had a video track and one audio handle of that start per audio track,
\* all published, and activeType is video.
\* When the coordinator's stop() returns from the stopSharing() that
\* followed such a start, with every unpublish resolved, the engine is
\* idle, every handle of that start has been unpublished once, the
\* selected file and the bound element are cleared and activeType is null.
C10_EndToEnd ==
  /\ (ui.attempt.entry = "provider" /\ IsVideo(ui.attempt.file)) =>
       /\ share.selectedFile = ui.attempt.file
       /\ share.videoElement # NULL
  /\ \A c \in Calls :
       /\ (ui.returned = "handleStart" /\ Done(c)
             /\ calls[c].caller = "handleStart" /\ calls[c].result = "ok"
             /\ share.videoElement = calls[c].el) =>
            /\ engine.isSharing /\ ~engine.isLoading
            /\ share.activeType = "video"
            /\ (calls[c].nV > 0) =>
                 /\ engine.videoTrackRef \in Range(calls[c].handles)
                 /\ room.publications[engine.videoTrackRef].kind = "video"
            /\ (calls[c].nA > 0) =>
                 /\ engine.audioTracksRef # None
                 /\ heap.arrays[engine.audioTracksRef] =
                      Pick(calls[c].handles, AudioHandles(calls[c].handles), 1)
            /\ Cardinality(VideoHandles(calls[c].handles))
                 = (IF calls[c].nV > 0 THEN 1 ELSE 0)
            /\ Cardinality(AudioHandles(calls[c].handles)) = calls[c].nA
            /\ \A i \in 1..Len(calls[c].handles) :
                 room.publications[calls[c].handles[i]].published
       /\ (ui.returned = "stop" /\ Done(c)
             /\ calls[c].op = "stop" /\ calls[c].result = "ok"
             /\ calls[c].pre.op = "start" /\ calls[c].pre.result = "ok") =>
            /\ IdleEngine(engine)
            /\ \A h \in Range(calls[c].pre.handles) :
                 /\ ~room.publications[h].published
                 /\ room.publications[h].unpublishCalls = 1
            /\ share.selectedFile = NULL
            /\ share.videoElement = NULL
            /\ share.activeType = NULL

C10_Witness ==
  \E c \in Calls :
    /\ ui.returned = "stop" /\ Done(c)
    /\ calls[c].op = "stop" /\ calls[c].result = "ok"
    /\ calls[c].pre.op = "start" /\ calls[c].pre.result = "ok"
    /\ Cardinality(VideoHandles(calls[c].pre.handles)) = 1
    /\ Cardinality(AudioHandles(calls[c].pre.handles)) = 1
    /\ ~share.isOpen

(***************************************************************************)
(* Properties of the remote operations.                                    *)
(***************************************************************************)
\* C7: a relative-seek call with numeric offset o, arriving when the read
\* model holds current time c and a known duration d, sets the read model's
\* currentTime to min(max(0, c + o), d) and returns c as a string.
C7_SeekClampsCurrentTime ==
  (/\ room.response.method = SEEK_STREAM_METHOD
   /\ controls.mounted
   /\ ~IsNaN(Number(room.response.payload))
   /\ ~IsNaN(room.response.duration)) =>
     LET c == room.response.currentTime
         d == room.response.duration
         o == Number(room.response.payload)
     IN /\ controls.currentTime = MathMin(MathMax(0, Plus(c, o)), d)
        /\ room.response.result = StringOfNumber(c)

\* C8: a pause/resume call returns the read model's isPlaying as it was when
\* the call arrived, as a string, and leaves isPlaying negated; a second
\* call right after the first returns the other string.
C8_PauseTogglesIsPlaying ==
  (room.response.method = PAUSE_STREAM_METHOD /\ controls.mounted) =>
     /\ room.response.result = StringOfBoolean(room.response.isPlaying)
     /\ controls.isPlaying = ~room.response.isPlaying
     /\ (room.response.prior # <<>>) =>
          room.response.prior # room.response.result

\* C9: each of the two operations is registered exactly while the hook is
\* mounted with an element bound and video sharing active.
C9_RegisteredIffBoundAndActive ==
  \A m \in RpcMethods :
    room.rpc[m].registered <=>
      (/\ controls.mounted
       /\ share.videoElement # NULL
       /\ VideoSharingActive(World))

(***************************************************************************)
(* Properties of file selection.                                           *)
(***************************************************************************)
\* The selected file and the message shown at an entry point: the video tab
\* shows localError || shareError?.message (part_006:128-130), the modal
\* shows its error (VideoFileModal.tsx:109-113).
SelectedAt(entry) ==
  IF entry = "provider" THEN share.selectedFile ELSE ui.selectedFile

MessageAt(entry) ==
  IF entry = "provider"
    THEN IF ui.localError # NULL THEN ui.localError ELSE engine.error
    ELSE ui.error

\* C6: after an attempt to select a file whose type does not begin with
\* "video", at either entry point, the selected file is the one selected
\* before the attempt and a validation message is shown to the user.
C6_NonVideoRejectedWithMessage ==
  (/\ ui.attempt.entry # NULL
   /\ ~startsWith(FileType(ui.attempt.file), <<"v", "i", "d", "e", "o">>)) =>
     /\ SelectedAt(ui.attempt.entry) = ui.attempt.before
     /\ MessageAt(ui.attempt.entry) = "Please select a valid video file"

\* C13: with an element bound, seek(t) through the control surface leaves
\* both the element's position and the read model's currentTime equal to t
\* when it returns, whatever the read model held before and without any
\* 'timeupdate' being delivered in between.
C13_SeekSetsElementAndReadModel ==
  [][\A t \in Times :
       (ui'.returned = "handleSeek" /\ HandleSeekAt(t)) =>
         /\ share'.videoElement = share.videoElement
         /\ elements'[share.videoElement].currentTime = t
         /\ controls'.currentTime = t]_vars

C13_Witness ==
  /\ ui.returned = "handleSeek"
  /\ share.videoElement # NULL
  /\ elements[share.videoElement].currentTime = 50
  /\ controls.currentTime = 50
  /\ elements[share.videoElement].paused
  /\ IsNaN(elements[share.videoElement].duration)

\* C14: the control-surface object the coordinator exposes is non-null
\* exactly when activeType is the video-file mode and an element is bound;
\* with mode none or screen, or with no element, it is null.
C14_SurfaceIffVideoModeAndElement ==
  (VideoControls(World) # <<>>)
    <=> (share.activeType = "video" /\ share.videoElement # NULL)

C14_Witness ==
  /\ VideoControls(World) # <<>>
  /\ share.activeType = "video"
  /\ share.videoElement # NULL
  /\ engine.isSharing

\* The activeType the stop() that returns in this step was called with: the
\* one its activation recorded, or, when it never suspended, the current one.
StoppedMode ==
  IF \E c \in DOMAIN calls' : calls'[c].caller = "stop" /\ calls'[c].pc = "done"
    THEN LET c == CHOOSE c \in DOMAIN calls' :
                    calls'[c].caller = "stop" /\ calls'[c].pc = "done"
         IN calls'[c].ctx
    ELSE share.activeType

\* C15: when stop() returns, the selected file and the bound-element
\* reference are both null if the mode it was called in was the video-file
\* mode, and both are what they were before its last step otherwise.
C15_StopClearsFileOnlyInVideoMode ==
  [][(ui'.returned = "stop") =>
       IF StoppedMode = "video"
         THEN /\ share'.selectedFile = NULL
              /\ share'.videoElement = NULL
         ELSE /\ share'.selectedFile = share.selectedFile
              /\ share'.videoElement = share.videoElement]_vars

C15_Witness ==
  /\ ui.returned = "stop"
  /\ \E c \in DOMAIN calls :
       /\ calls[c].caller = "stop" /\ calls[c].pc = "done"
       /\ calls[c].ctx = "screen"
  /\ share.selectedFile # NULL
  /\ share.videoElement # NULL

\* C16: while a stop handler is registered, activeType goes from a mode to
\* null only in the step in which stop() resumes after that handler was
\* invoked and has settled; no other step sets it to null.
C16_ModeClearedOnlyAfterHandlerRan ==
  [][(/\ share.stopHandlerRef.fn # NULL
      /\ share.activeType # NULL
      /\ share'.activeType = NULL) => ui'.returned = "stop"]_vars

\* How a call ended: normally, through one of the return statements or the
\* end of the function.
ReturnedNormally(r) ==
  r.result \in {"ok", "failed", "not ready", "already sharing"}

\* C17: a startSharing() or stopSharing() that has finished returned
\* normally, whichever of play, capture, publish, unpublish and track stop
\* failed during it; each failure was handed to onError, and the error state
\* holds the last of them.
C17_FailuresCaughtAndReported ==
  \A c \in Calls :
    (Done(c) /\ calls[c].op \in {"start", "stop"}) =>
      /\ ReturnedNormally(calls[c])
      /\ calls[c].onError =
           Len(calls[c].rejected)
             + (IF calls[c].result = "not ready" THEN 1 ELSE 0)
      /\ calls[c].rejected # <<>> =>
           engine.error = calls[c].rejected[Len(calls[c].rejected)]

C17_Witness ==
  \E c \in Calls :
    /\ Done(c) /\ calls[c].op = "start"
    /\ calls[c].rejected = <<"publish failed", "track stop failed">>
    /\ calls[c].onError = 2
    /\ calls[c].result = "failed"
    /\ engine.error = "track stop failed"
    /\ ~engine.isLoading

\* This step called no stop handler and neither startSharing() nor
\* stopSharing(): no activation was added and none returned.
NothingInvoked ==
  /\ Cardinality({c \in DOMAIN calls' : calls'[c].pc \notin {"done", "past"}})
       = Cardinality(InFlight)
  /\ \A c \in DOMAIN calls' : calls'[c].pc # "done"

\* C18: open(), close() and toggle() set isOpen to true, to false and to
\* its negation, and change nothing else: activeType, the stop handler, the
\* selected file and the bound element are as before, the engine is as
\* before and no stop handler is invoked.
C18_PanelOpsChangeOnlyIsOpen ==
  [][/\ (ui'.returned = "open" /\ OpenPanel) => share'.isOpen
     /\ (ui'.returned = "close" /\ ClosePanel) => ~share'.isOpen
     /\ (ui'.returned = "toggle" /\ TogglePanel) =>
          (share'.isOpen = ~share.isOpen)
     /\ (ui'.returned \in {"open", "close", "toggle"}) =>
          /\ share' = [share EXCEPT !.isOpen = share'.isOpen]
          /\ engine' = engine
          /\ NothingInvoked]_vars

C18_Witness ==
  /\ ui.returned = "toggle"
  /\ share.isOpen
  /\ share.activeType = "video"
  /\ share.stopHandlerRef.fn = "stopSharing"
  /\ share.selectedFile # NULL
  /\ share.videoElement # NULL
  /\ engine.isSharing

\* C19: setSharing(type) sets activeType to type and changes nothing else of
\* the coordinator: the stop handler is neither invoked nor replaced, the
\* engine is neither started nor stopped, and isOpen, the selected file and
\* the bound element are as before.
C19_SetSharingChangesOnlyActiveType ==
  [][\A type \in {"screen", "video", NULL} :
       (ui'.returned = "setSharing" /\ SetSharingAt(type)) =>
         /\ share' = [share EXCEPT !.activeType = type]
         /\ engine' = engine
         /\ NothingInvoked]_vars

C19_Witness ==
  /\ ui.returned = "setSharing"
  /\ share.activeType = NULL
  /\ share.stopHandlerRef.fn = "stopSharing"
  /\ ~share.stopHandlerRef.dead
  /\ engine.isSharing
  /\ share.selectedFile # NULL
  /\ share.videoElement # NULL

\* C20: with no element bound, handlePlayPause, handleSeek,
\* handleVolumeChange and handlePlaybackRateChange each return normally and
\* leave isPlaying, currentTime, duration, volume and playbackRate of the read
\* model, and every element, as they were.
C20_UnboundHandlersAreNoOps ==
  [][(/\ share.videoElement = NULL
      /\ PlayPauseUnbound \/ SeekUnbound \/ VolumeChangeUnbound
           \/ PlaybackRateChangeUnbound) =>
       /\ ui'.returned \in {"handlePlayPause", "handleSeek",
                             "handleVolumeChange", "handlePlaybackRateChange"}
       /\ controls' = controls
       /\ elements' = elements
       /\ share' = share]_vars

C20_Witness ==
  /\ ui.returned = "handleSeek"
  /\ share.videoElement = NULL
  /\ controls.currentTime = 10
  /\ controls.duration = Duration
  /\ controls.isPlaying
  /\ controls.volume = 0
  /\ controls.playbackRate = 2

\* C21: after every step, each player has at most one blob URL created and
\* not revoked, and none when it is not rendered; a step that loads a file
\* creates one URL, for that file, and revokes the URL of the previous load.
C21_AtMostOneLiveUrl ==
  [][\A p \in Players :
       LET u == heap'.urls[p]
           f == IF p = "provider" THEN share'.selectedFile
                                  ELSE ui'.selectedFile
       IN /\ Len(u.live) <= 1
          /\ f = NULL => u.live = <<>>
          /\ u.created > 0 =>
               /\ u.created = 1
               /\ u.revoked = Len(heap.urls[p].live)
               /\ u.live = <<f>>]_vars

C21_Witness ==
  /\ ui.attempt.entry = "modal"
  /\ ui.attempt.before # NULL
  /\ heap.urls["modal"].created = 1
  /\ heap.urls["modal"].revoked = 1
  /\ heap.urls["modal"].live = <<ui.selectedFile>>

(***************************************************************************)
(* Properties of the engine under overlapping calls.                       *)
(***************************************************************************)
\* The calls suspended at room.localParticipant.publishTrack or
\* unpublishTrack.
AtRoom == {c \in InFlight : calls[c].pc \in {"pubV", "pubA", "unpubV", "unpubA"}}

\* C22: for one engine instance at most one publish or unpublish call is in
\* flight at any time, for every interleaving of startSharing() and
\* stopSharing() invocations, a call made while an earlier startSharing()
\* is suspended included.
C22_OneRoomCallInFlight == Cardinality(AtRoom) <= 1

\* The handles the engine retains: videoTrackRef.current and the elements
\* of the array audioTracksRef.current.
Retained ==
  ({engine.videoTrackRef} \ {None})
    \cup (IF engine.audioTracksRef = None THEN {}
          ELSE Range(heap.arrays[engine.audioTracksRef]))

\* C23: every handle a successful publish returned is, at every later
\* point, still retained by the engine or has already been passed to
\* unpublish, for every interleaving of startSharing() and stopSharing()
\* calls, two overlapping startSharing() calls included.
C23_HandleRetainedOrUnpublished ==
  \A h \in 1..Len(room.publications) :
    \/ h \in Retained
    \/ room.publications[h].unpublishCalls > 0

\* The handles the room has published and not yet unpublished.
Published ==
  {h \in 1..Len(room.publications) : room.publications[h].published}

\* C24: whenever isSharing is true the engine retains the capture stream
\* with its sub-tracks not stopped, and the handles it retains are exactly
\* those currently published, also when a stopSharing() ran to completion
\* while a startSharing() was suspended at play or at a publish.
C24_SharingMeansStreamAndHandlesLive ==
  engine.isSharing =>
    /\ engine.streamRef # None
    /\ ~heap.streams[engine.streamRef].stopped
    /\ Retained = Published
    /\ ~room.orphaned

(***************************************************************************)
(* Properties of stopSharing() and of the order of a startSharing().       *)
(***************************************************************************)
\* C25: whenever the engine is idle (isSharing false, no start or stop in
\* flight) it retains no publication handle and no capture stream, and
\* every handle a publish created has been unpublished; also after a start
\* that failed and after a stop in which an unpublish failed.
C25_IdleRetainsNothing ==
  ~engine.isSharing /\ Quiet =>
    /\ Retained = {}
    /\ engine.streamRef = None
    /\ Published = {}
    /\ ~room.orphaned

\* A stopSharing() has just returned in call c: one called directly, or the
\* one a failed startSharing() awaited.
StopReturned(c) == Done(c) /\ (calls[c].op = "stop" \/ calls[c].comp)

\* C26: every stopSharing() call, whatever was published and whether or not
\* an unpublish fails, ends with isSharing false and with
\* onTrackUnpublished invoked exactly once.
C26_StopEndsNotSharingAndNotifiesOnce ==
  \A c \in Calls :
    StopReturned(c) =>
      /\ ~engine.isSharing
      /\ calls[c].onTrackUnpublished = 1

\* A stopSharing() passes the video handle to unpublish
\* before any audio handle, and the audio handles in the order in which they
\* were published (handles are numbered in that order).
UnpublishOrder ==
  \A c \in Calls :
    LET q == calls[c].unpublishCalls
    IN \A i \in 1..Len(q) :
         /\ room.publications[q[i]].kind = "video" => i = 1
         /\ \A k \in 1..(i - 1) :
              room.publications[q[k]].kind = "audio" => q[k] < q[i]

\* C27: stopSharing() unpublishes the video handle first and then the audio
\* handles in order, and clears each handle's reference as soon as its own
\* unpublish succeeds: when the k-th unpublish fails, the handles
\* unpublished before it are no longer retained, and no stopSharing()
\* passes to unpublish a handle that is already unpublished.
C27_UnpublishedHandlesAreDropped ==
  /\ UnpublishOrder
  /\ \A c \in Calls :
       StopReturned(c) =>
         \A h \in Range(calls[c].unpublishCalls) :
           ~room.publications[h].published => h \notin Retained
  /\ \A c \in AtRoom :
       calls[c].pc \in {"unpubV", "unpubA"} =>
         room.publications[calls[c].h].published

\* C28: after stopSharing() returns, every sub-track of the capture stream
\* the engine held has been stopped and the stream reference is null, for
\* every outcome of the unpublish calls.
C28_StopReleasesStream ==
  \A c \in Calls :
    StopReturned(c) =>
      /\ engine.streamRef = None
      /\ calls[c].stream # None => heap.streams[calls[c].stream].stopped

\* seq is an initial part of full.
IsPrefix(seq, full) ==
  Len(seq) <= Len(full) /\ \A i \in 1..Len(seq) : seq[i] = full[i]

\* C29: within one startSharing() the video publish is issued and completes
\* before the first audio publish is issued, the audio publishes are issued
\* one at a time in the enumeration order of the stream's audio tracks, and
\* the audio handles are retained in that same order.
C29_PublishOrder ==
  \A c \in Calls :
    calls[c].op = "start" /\ calls[c].pc # "past" =>
      LET r == calls[c]
          v == IF r.nV > 0 THEN 1 ELSE 0
          pending == Len(r.publishCalls) - Len(r.handles)
      IN /\ IsPrefix(r.publishCalls,
                     ExpectedPublishCalls(r.stream, r.nV, r.nA))
         /\ pending \in {0, 1}
         /\ pending = 1 =>
              \/ r.pc \in {"pubV", "pubA"}
              \/ \E i \in 1..Len(r.rejected) : r.rejected[i] = "publish failed"
         /\ \A i \in 1..Len(r.handles) :
              room.publications[r.handles[i]].kind =
                 IF i <= v THEN "video" ELSE "audio"
         /\ ( /\ ~r.comp
              /\ r.nA > 0
              /\ r.pc = "pubA" \/ (r.pc = "done" /\ r.result = "ok") ) =>
              /\ engine.audioTracksRef # None
              /\ heap.arrays[engine.audioTracksRef] =
                    SubSeq(r.handles, v + 1, Len(r.handles))

C29_Witness ==
  \E c \in Calls :
    /\ Done(c) /\ calls[c].op = "start" /\ calls[c].result = "ok"
    /\ calls[c].nV > 0 /\ calls[c].nA = 2
    /\ Len(calls[c].publishCalls) = 3
    /\ engine.audioTracksRef # None
    /\ Len(heap.arrays[engine.audioTracksRef]) = 2

\* C30: within one startSharing() the element is unmuted and at full volume
\* before play is requested, play has completed (the element is not paused)
\* before the stream is captured, and the stream is captured before any
\* publish is issued; when play fails there is no capture and no publish.
C30_StartOrder ==
  \A c \in Calls :
    calls[c].op = "start" /\ calls[c].pc # "past" =>
      LET r == calls[c]
          audible == ~elements[r.el].muted /\ elements[r.el].volume = 1
      IN /\ r.pc = "play" =>
              /\ audible
              /\ elements[r.el].paused
              /\ r.stream = None
              /\ r.publishCalls = <<>>
         /\ r.stream # None /\ ~r.comp =>
              /\ audible
              /\ ~elements[r.el].paused
         /\ \A i \in 1..Len(r.publishCalls) :
              r.stream # None /\ r.publishCalls[i].stream = r.stream
         /\ (\E i \in 1..Len(r.rejected) : r.rejected[i] = "play failed") =>
              /\ r.stream = None
              /\ r.publishCalls = <<>>
              /\ elements[r.el].paused

C30_Witness ==
  \E c \in Calls :
    /\ Done(c) /\ calls[c].op = "start"
    /\ calls[c].rejected = <<"play failed">>
    /\ calls[c].stream = None /\ calls[c].publishCalls = <<>>
    /\ heap.streams = <<>>

(***************************************************************************)
(* Properties of useVideoControls: registry, listeners, read model.        *)
(***************************************************************************)
\* C31: a remote operation name is never registered while a handler is
\* already registered under it: between two register calls for a name there
\* is an unregister call for it, also when the bound element changes from
\* one element to another while sharing stays active.
C31_NoRegisterOverRegistered == ~room.reRegistered

\* C32: invoking the pause/resume or the relative-seek remote operation
\* changes only the read model: the elements (paused flag, position and the
\* rest) are as they were, and of the read model only isPlaying (pause) or
\* currentTime (seek) may differ.
C32_RemoteOpsTouchOnlyReadModel ==
  [][room'.response.method # NULL =>
       /\ elements' = elements
       /\ share' = share
       /\ calls' = calls
       /\ IF room'.response.method = PAUSE_STREAM_METHOD
            THEN controls' = [controls EXCEPT !.isPlaying = controls'.isPlaying]
            ELSE controls' = [controls EXCEPT
                                !.currentTime = controls'.currentTime]]_vars

C32_Witness ==
  /\ room.response.method = SEEK_STREAM_METHOD
  /\ controls.mounted
  /\ share.videoElement # NULL
  /\ controls.currentTime # room.response.currentTime
  /\ controls.currentTime # elements[share.videoElement].currentTime

\* C33: the mirror's listeners are attached to an element exactly while
\* that element is the bound element and the active flag is true (and the
\* hook is mounted); when the element changes or active becomes false they
\* are removed from the old element, so only the bound element's events
\* reach the read model.
C33_ListenersIffBoundAndActive ==
  controls.listeners =
    IF controls.mounted /\ share.videoElement # NULL /\ VideoSharingActive(World)
      THEN share.videoElement
      ELSE NULL

C33_Witness ==
  /\ room.reRegistered
  /\ controls.mounted
  /\ share.videoElement = "el2"
  /\ controls.listeners = "el2"

\* C34: while the mirror is active, a timeupdate event sets the read
\* model's currentTime to the element's actual position, whatever a seek
\* wrote before it, and a play, pause or ended event sets isPlaying to the
\* negation of the element's paused flag.
C34_EventsOverwriteOptimisticValues ==
  /\ ui.returned = "timeupdate" =>
       /\ controls.listeners # NULL
       /\ controls.currentTime = elements[controls.listeners].currentTime
  /\ ui.returned = "playing" =>
       /\ controls.listeners # NULL
       /\ controls.isPlaying = ~elements[controls.listeners].paused

C34_Witness ==
  /\ ui.returned = "timeupdate"
  /\ controls.listeners # NULL
  /\ controls.currentTime = elements[controls.listeners].currentTime
  /\ controls.currentTime > 0
  /\ room.rpc[SEEK_STREAM_METHOD].registered

\* C35: togglePlayPause() requests play when the element is paused and
\* pause otherwise, and does not itself change the read model: isPlaying
\* changes only when the resulting play or pause event is delivered.
C35_TogglePlayPauseLeavesReadModel ==
  [][ui'.returned = "handlePlayPause" /\ share.videoElement # NULL =>
       /\ elements'[share.videoElement].paused =
            ~elements[share.videoElement].paused
       /\ controls' = controls
       /\ elements' = [elements EXCEPT
                         ![share.videoElement].paused = ~@]]_vars

C35_Witness ==
  /\ ui.returned = "handlePlayPause"
  /\ share.videoElement # NULL
  /\ ~elements[share.videoElement].paused
  /\ ~controls.isPlaying

(***************************************************************************)
(* Properties of the coordinator's mode and of the engine's isLoading.     *)
(***************************************************************************)
\* C36: activeType only moves between null and "screen" and between null
\* and "video": no step of the screen-share tab, the video-file tab or
\* stop() takes it from "screen" to "video" or from "video" to "screen".
C36_NoDirectModeSwitch ==
  [][/\ ~(share.activeType = "screen" /\ share'.activeType = "video")
     /\ ~(share.activeType = "video" /\ share'.activeType = "screen")]_vars

\* C37: whenever activeType is "video" and no engine call is in flight, the
\* engine is sharing; in particular, once handleStart has finished with a
\* startSharing() that failed, activeType is null again and no stop handler
\* is registered.
C37_VideoModeMeansSharing ==
  share.activeType = "video" /\ Quiet =>
    /\ engine.isSharing
    /\ share.stopHandlerRef.fn = "stopSharing"

\* C38: whenever the engine is sharing and no call is in flight, activeType
\* is "video" and the registered stop handler is the stopSharing of that
\* engine; also when stop() was invoked while the tab's startSharing() was
\* suspended, after setSharing and before setStopHandler.
C38_SharingMeansVideoModeAndHandler ==
  engine.isSharing /\ Quiet =>
    /\ share.activeType = "video"
    /\ share.stopHandlerRef.fn = "stopSharing"
    /\ ~share.stopHandlerRef.dead

\* C39: isLoading is true exactly while a startSharing() or stopSharing()
\* call is in flight: true at every point where at least one is suspended,
\* also when calls overlap and during the compensating stopSharing() of a
\* failed start, and false when none is.
C39_LoadingIffInFlight ==
  engine.isLoading <=> InFlight # {}

\* C40: when every play, publish and unpublish settles, every startSharing()
\* and stopSharing() that is in flight eventually returns, and with isLoading
\* false: the engine never stays loading.  A start that failed returns only
\* after its compensating stopSharing() ran, and then isSharing is false.
FailedStartReturned(c) ==
  /\ calls[c].pc = "done"
  /\ calls[c].op = "start"
  /\ calls[c].rejected # <<>>

C40_CallsReturnAndLoadingEnds ==
  /\ (InFlight # {}) ~> (Quiet /\ ~engine.isLoading)
  /\ [](\A c \in 1..Len(calls) :
          FailedStartReturned(c) =>
            /\ calls[c].comp
            /\ ~engine.isLoading
            /\ ~engine.isSharing)

C40_Witness ==
  \E c \in 1..Len(calls) :
    /\ FailedStartReturned(c)
    /\ calls[c].unpublishCalls # <<>>
    /\ Len(calls[c].rejected) = 2
    /\ ~engine.isLoading
====
